---- MODULE Spec2Model ----
(***************************************************************************)
(* Model of App2.py, the US index options dashboard: a script that the UI  *)
(* shell runs top to bottom on every interaction (one "render").  The      *)
(* state is the market-data provider, the three st.cache_data caches, the  *)
(* script's position (pc), its variables and what the render has put on    *)
(* the page.                                                               *)
(***************************************************************************)
EXTENDS Integers, Sequences, FiniteSets, TLC

\* ------------------------------------------------------------------ bounds
NumIndices == 2      \* how many of the candidate symbols are modelled
MaxExpiries == 2     \* longest expiry list the provider reports
LastDay == 2         \* days the clock runs through

\* ------------------------------------------------------------- constants
\* App2.py 17-21
CandidateList ==
  << "^SPX", "^NDX", "^DJI", "^RUT", "^VIX", "^OEX", "^XAX", "^NYA", "^MID",
     "^SML", "^GSPC", "^IXIC", "^TRAN", "^UTIL", "^SOX", "^RUA", "^W5000" >>

common_us_indices == SubSeq(CandidateList, 1, NumIndices)

Symbols == { common_us_indices[i] : i \in 1..Len(common_us_indices) }

ExpirySeq == << "2025-01-17", "2025-02-21", "2025-03-21", "2025-04-17" >>

\* the expiry lists ticker.options can report: () or a non-empty tuple
ExpiryLists == { << >>, SubSeq(ExpirySeq, 1, MaxExpiries) }

Expiries == { ExpirySeq[i] : i \in 1..MaxExpiries }

\* An optional value is a sequence: << >> when absent, << v >> when present.
None == << >>
Some(v) == << v >>
Get(o) == o[1]

NoIndex == "None"          \* index_option when the selectbox has no options
NaN == 0 - 1               \* a missing cell of a provider table

\* --------------------------------------------------------- provider data
\* Tables ticker.option_chain can return.  A row is a record of its cells.
Row(s, p, oi) == [strike |-> s, lastPrice |-> p, openInterest |-> oi]

\* calls 100:5 110:10 120:0, puts 100:8 110:3
ScenarioChain ==
  [ok |-> TRUE, columns |-> << "strike", "lastPrice", "openInterest" >>,
   calls |-> << Row(100, 12, 5), Row(110, 6, 10), Row(120, 2, 0) >>,
   puts |-> << Row(100, 3, 8), Row(110, 9, 3) >>]

\* no open interest at all: a zero, a missing cell
DeadChain ==
  [ok |-> TRUE, columns |-> << "strike", "lastPrice", "openInterest" >>,
   calls |-> << Row(100, 12, 0) >>,
   puts |-> << Row(100, 3, NaN) >>]

\* tables without an openInterest column
BareChain ==
  [ok |-> TRUE, columns |-> << "strike", "lastPrice" >>,
   calls |-> << [strike |-> 100, lastPrice |-> 12] >>,
   puts |-> << [strike |-> 100, lastPrice |-> 3] >>]

\* the provider call raises
Failure == [ok |-> FALSE]

\* what ticker.option_chain(expiry) can do
ChainAnswers == { ScenarioChain, DeadChain, BareChain, Failure }

\* what ticker.options can do
OptionAnswers == { [ok |-> TRUE, options |-> l] : l \in ExpiryLists } \cup { Failure }

\* ---------------------------------------------------------------- pandas
RECURSIVE SumSeq(_)
SumSeq(s) == IF s = << >> THEN 0 ELSE Head(s) + SumSeq(Tail(s))

Elems(s) == { s[i] : i \in 1..Len(s) }

HasColumn(df, c) == c \in Elems(df.columns)

\* df[c] = v for a scalar v: the column is overwritten, or appended last
SetColumn(df, c, v) ==
  [columns |-> IF HasColumn(df, c) THEN df.columns ELSE Append(df.columns, c),
   rows |-> [i \in 1..Len(df.rows) |->
               [f \in (DOMAIN df.rows[i]) \cup {c} |->
                  IF f = c THEN v ELSE df.rows[i][f]]]]

\* df.fillna(0); the cells of the two stamped columns are never missing
fillna(df) ==
  [df EXCEPT !.rows =
     [i \in 1..Len(df.rows) |->
        [f \in DOMAIN df.rows[i] |->
           IF f \notin {"expirationDate", "lastTradeDate"} /\ df.rows[i][f] = NaN
           THEN 0 ELSE df.rows[i][f]]]]

\* pd.concat([a, b], ignore_index=True): a's rows then b's, relabelled 0..n-1
concat(a, b) ==
  LET all == a.rows \o b.rows
  IN [columns |-> a.columns \o SelectSeq(b.columns, LAMBDA c : ~HasColumn(a, c)),
      index |-> [i \in 1..Len(all) |-> i - 1],
      rows |-> all]

\* df[mask] for a boolean mask, one entry per row: the rows where it is true,
\* each with its index label
RECURSIVE Keep(_, _, _)
Keep(df, mask, i) ==
  IF i > Len(df.rows) THEN [index |-> << >>, rows |-> << >>]
  ELSE LET rest == Keep(df, mask, i + 1)
       IN IF mask[i]
          THEN [index |-> << df.index[i] >> \o rest.index,
                rows |-> << df.rows[i] >> \o rest.rows]
          ELSE rest

BoolIndex(df, mask) ==
  LET k == Keep(df, mask, 1)
  IN [columns |-> df.columns, index |-> k.index, rows |-> k.rows]

\* df[c].sum()
ColumnSum(df, c) == SumSeq([i \in 1..Len(df.rows) |-> df.rows[i][c]])

\* df[c].idxmax(): the index label of the first row holding the maximum
idxmax(df, c) ==
  LET best == CHOOSE i \in 1..Len(df.rows) :
                /\ \A j \in 1..Len(df.rows) : df.rows[j][c] <= df.rows[i][c]
                /\ \A j \in 1..(i - 1) : df.rows[j][c] < df.rows[i][c]
  IN df.index[best]

\* df.loc[label, c] for a unique label
loc(df, label, c) ==
  LET i == CHOOSE i \in 1..Len(df.rows) : df.index[i] = label
  IN df.rows[i][c]

\* df.to_csv(index=False): the header line, then one line of cells per row
to_csv(df) ==
  << df.columns >> \o
  [i \in 1..Len(df.rows) |-> [k \in 1..Len(df.columns) |-> df.rows[i][df.columns[k]]]]

\* ----------------------------------------------------------------- state
VARIABLES
  today,              \* the date pd.Timestamp.today() gives
  renderDay,          \* the date on which the running render began
  provOptions,        \* provider: symbol -> what ticker.options does, once observed
  provChain,          \* provider: (symbol, expiry) -> what option_chain does, once observed
  cacheIndices,       \* st.cache_data of get_all_us_indices_with_options
  cacheExpiry,        \* st.cache_data of fetch_expiry_dates, by index
  cacheChain,         \* st.cache_data of fetch_option_chain, by (index, expiry)
  pc,                 \* position of the running script
  valid_indices, index_option, expiry_dates,
  pos,                \* position of the loop of line 75 in expiry_dates
  valid_expiry_dates, selected_expiry,
  calls_df, puts_df, filtered_df, current_price,
  warnings,           \* st.warning messages of this render (the expiry each names)
  error,              \* st.error message of this render
  chart,              \* the figure given to st.plotly_chart
  download,           \* what st.download_button offers
  seen,               \* what line 76 got for each expiry looked at so far
  refetched,          \* what line 90 got for the selected expiry
  prev,               \* what the first render left behind, once a second one runs
  cacheCleared        \* the caches were cleared since the render before this one ended

provider == << provOptions, provChain >>
caches == << cacheIndices, cacheExpiry, cacheChain >>
locals == << valid_indices, index_option, expiry_dates, pos, valid_expiry_dates,
             selected_expiry, calls_df, puts_df, filtered_df, current_price >>
page == << warnings, error, chart, download >>
history == << seen, refetched, prev, cacheCleared >>
vars == << today, renderDay, provider, caches, pc, locals, page, history >>

ChainKeys == Symbols \X Expiries

Init ==
  /\ today = 1
  /\ renderDay = 1
  /\ provOptions = [s \in Symbols |-> None]
  /\ provChain = [k \in ChainKeys |-> None]
  /\ cacheIndices = None
  /\ cacheExpiry = [s \in Symbols |-> None]
  /\ cacheChain = [k \in ChainKeys |-> None]
  /\ pc = "discover"
  /\ valid_indices = << >>
  /\ index_option = NoIndex
  /\ expiry_dates = << >>
  /\ pos = 1
  /\ valid_expiry_dates = << >>
  /\ selected_expiry = None
  /\ calls_df = None
  /\ puts_df = None
  /\ filtered_df = None
  /\ current_price = None
  /\ warnings = << >>
  /\ error = None
  /\ chart = None
  /\ download = None
  /\ seen = << >>
  /\ refetched = None
  /\ prev = None
  /\ cacheCleared = FALSE

\* ------------------------------------------------- instrument discovery
\* DiscoverFrom with "break" for the "continue" of line 30
RECURSIVE DiscoverFromBreak(_, _, _)
DiscoverFromBreak(ans, i, acc) ==
  IF i > Len(common_us_indices) THEN acc
  ELSE LET index == common_us_indices[i]
       IN IF ~ans[index].ok
          THEN acc
          ELSE IF ans[index].options # << >>
               THEN DiscoverFromBreak(ans, i + 1, Append(acc, index))
               ELSE DiscoverFromBreak(ans, i + 1, acc)

\* The loop of lines 24-30 from candidate i on, ans[s] being what
\* ticker.options does for s.  A raise is caught and the loop goes on.
RECURSIVE DiscoverFrom(_, _, _)
DiscoverFrom(ans, i, acc) ==
  IF i > Len(common_us_indices) THEN acc
  ELSE LET index == common_us_indices[i]
       IN IF ~ans[index].ok
          THEN DiscoverFrom(ans, i + 1, acc)                  \* except: continue
          ELSE IF ans[index].options # << >>
               THEN DiscoverFrom(ans, i + 1, Append(acc, index))
               ELSE DiscoverFrom(ans, i + 1, acc)

\* what the provider can answer for a key it has already answered for, or not
Answers(known, all) == IF known = None THEN all ELSE { Get(known) }

\* lines 15-33
get_all_us_indices_with_options ==
  /\ pc = "discover"
  /\ IF cacheIndices # None
     THEN /\ valid_indices' = Get(cacheIndices)
          /\ UNCHANGED << provOptions, cacheIndices >>
     ELSE \E ans \in [Symbols -> OptionAnswers] :
            /\ \A s \in Symbols : ans[s] \in Answers(provOptions[s], OptionAnswers)
            /\ provOptions' = [s \in Symbols |-> Some(ans[s])]
            /\ valid_indices' = DiscoverFrom(ans, 1, << >>)
            /\ cacheIndices' = Some(valid_indices')
  /\ pc' = "select_index"
  /\ UNCHANGED << today, renderDay, provChain, cacheExpiry, cacheChain, index_option, expiry_dates, pos,
                  valid_expiry_dates, selected_expiry, calls_df, puts_df, filtered_df,
                  current_price, page, history >>

\* line 34: with no options the selectbox yields None; it yields option 0
\* (index=0) in the first render, and in the second one too when its options
\* have changed; else it keeps its value (the index is not picked anew).
SelectIndex ==
  /\ pc = "select_index"
  /\ index_option' =
       IF valid_indices = << >> THEN NoIndex
       ELSE IF prev # None /\ Get(prev).valid_indices = valid_indices
            THEN Get(prev).index_option
            ELSE valid_indices[1]
  /\ pc' = "expiry_dates"
  /\ UNCHANGED << today, renderDay, provider, caches, valid_indices, expiry_dates, pos, valid_expiry_dates,
                  selected_expiry, calls_df, puts_df, filtered_df, current_price, page,
                  history >>

\* lines 38-43, for an answer of ticker.options
expiry_dates_of(ans) ==
  IF ~ans.ok THEN << >>                                   \* except: return []
  ELSE IF ans.options # << >> THEN ans.options ELSE << >>

\* lines 37-45; yf.Ticker(None) raises, which line 42 catches
fetch_expiry_dates ==
  /\ pc = "expiry_dates"
  /\ IF index_option = NoIndex
     THEN /\ expiry_dates' = << >>
          /\ UNCHANGED << provOptions, cacheExpiry >>
     ELSE IF cacheExpiry[index_option] # None
          THEN /\ expiry_dates' = Get(cacheExpiry[index_option])
               /\ UNCHANGED << provOptions, cacheExpiry >>
          ELSE \E ans \in Answers(provOptions[index_option], OptionAnswers) :
                 /\ provOptions' = [provOptions EXCEPT ![index_option] = Some(ans)]
                 /\ expiry_dates' = expiry_dates_of(ans)
                 /\ cacheExpiry' = [cacheExpiry EXCEPT ![index_option] = Some(expiry_dates')]
  /\ pos' = 1
  /\ pc' = "validate"
  /\ UNCHANGED << today, renderDay, provChain, cacheIndices, cacheChain, valid_indices, index_option,
                  valid_expiry_dates, selected_expiry, calls_df, puts_df, filtered_df,
                  current_price, page, history >>

\* ---------------------------------------------------------- chain fetcher
\* The days lines 61 and 62 can stamp.  A render is over within the day after
\* the one it began on: midnight passes at most once while it runs, before
\* the clock is read or between the two lines.
Later(d) == { d } \cup { e \in { d + 1 } : d = renderDay /\ e <= LastDay }

StampPairs == UNION { { << d1, d2 >> : d2 \in Later(d1) } : d1 \in Later(today) }

\* (None, None)
Absent == [ok |-> FALSE]

\* lines 50-71, for an answer of ticker.option_chain
option_chain_result(ans, expiry, days) ==
  IF ~ans.ok THEN Absent                                  \* except: return None, None
  ELSE LET Stamp(rows, day) ==
             fillna(SetColumn(SetColumn([columns |-> ans.columns, rows |-> rows],
                                        "expirationDate", expiry),
                              "lastTradeDate", day))
       IN [ok |-> TRUE, calls |-> Stamp(ans.calls, days[1]),
           puts |-> Stamp(ans.puts, days[2])]

\* what a call that asks the provider can come to: the value returned, and
\* the provider, the cache, the clock and the page after it.  A call that
\* raises at line 52 reads no clock.
Asked(index, expiry) ==
  LET Comes(ans, days) ==
        [ret |-> option_chain_result(ans, expiry, days),
         provChain |-> [provChain EXCEPT ![<< index, expiry >>] = Some(ans)],
         cacheChain |-> [cacheChain EXCEPT ![<< index, expiry >>] =
                           Some(option_chain_result(ans, expiry, days))],
         today |-> IF ans.ok THEN days[2] ELSE today,
         warnings |-> IF ans.ok THEN warnings ELSE Append(warnings, expiry)]
  IN UNION { IF ans.ok THEN { Comes(ans, days) : days \in StampPairs }
             ELSE { Comes(ans, << today, today >>) } :
             ans \in Answers(provChain[<< index, expiry >>], ChainAnswers) }

\* fetch_option_chain without its @st.cache_data: every call asks the provider
fetch_option_chain_uncached(index, expiry) == Asked(index, expiry)

\* lines 48-71: what the call fetch_option_chain(index, expiry) can come to.
\* A miss asks the provider and stores the result; a hit returns the stored
\* result, and st.cache_data replays the st.warning of a stored failure.
fetch_option_chain(index, expiry) ==
  IF cacheChain[<< index, expiry >>] # None
  THEN LET ret == Get(cacheChain[<< index, expiry >>])
       IN { [ret |-> ret, provChain |-> provChain, cacheChain |-> cacheChain,
             today |-> today,
             warnings |-> IF ret.ok THEN warnings ELSE Append(warnings, expiry)] }
  ELSE Asked(index, expiry)

\* the state after a call of fetch_option_chain that came to o
Fetched(o) ==
  /\ UNCHANGED renderDay
  /\ provChain' = o.provChain
  /\ cacheChain' = o.cacheChain
  /\ today' = o.today
  /\ warnings' = o.warnings

\* ------------------------------------------------------ expiry validator
\* HasOpenInterest with ">= 0" for the "> 0" of line 79
HasOpenInterestOrNone(ret) ==
  IF ret.ok
  THEN LET options_df == concat(ret.calls, ret.puts)
       IN /\ HasColumn(options_df, "openInterest")
          /\ ColumnSum(options_df, "openInterest") >= 0
  ELSE FALSE

\* lines 77-79: does the fetched pair make its expiry a valid one
HasOpenInterest(ret) ==
  IF ret.ok
  THEN LET options_df == concat(ret.calls, ret.puts)
       IN /\ HasColumn(options_df, "openInterest")
          /\ ColumnSum(options_df, "openInterest") > 0
  ELSE FALSE

\* ValidateExpiry leaving the loop at the first fetch that fails
ValidateExpiryBreak ==
  /\ pc = "validate"
  /\ pos <= Len(expiry_dates)
  /\ LET expiry == expiry_dates[pos]
     IN \E o \in fetch_option_chain(index_option, expiry) :
          LET ret == o.ret IN
          /\ Fetched(o)
          /\ calls_df' = IF ret.ok THEN Some(ret.calls) ELSE None
          /\ puts_df' = IF ret.ok THEN Some(ret.puts) ELSE None
          /\ valid_expiry_dates' = IF HasOpenInterest(ret)
                                   THEN Append(valid_expiry_dates, expiry)
                                   ELSE valid_expiry_dates
          /\ seen' = Append(seen, ret)
          /\ pos' = IF ret.ok THEN pos + 1 ELSE Len(expiry_dates) + 1
  /\ UNCHANGED << provOptions, cacheIndices, cacheExpiry, pc, valid_indices, index_option,
                  expiry_dates, selected_expiry, filtered_df, current_price, error, chart,
                  download, refetched, prev, cacheCleared >>

\* lines 75-80, one iteration
ValidateExpiry ==
  /\ pc = "validate"
  /\ pos <= Len(expiry_dates)
  /\ LET expiry == expiry_dates[pos]
     IN \E o \in fetch_option_chain(index_option, expiry) :
          LET ret == o.ret IN
          /\ Fetched(o)
          /\ calls_df' = IF ret.ok THEN Some(ret.calls) ELSE None
          /\ puts_df' = IF ret.ok THEN Some(ret.puts) ELSE None
          /\ valid_expiry_dates' = IF HasOpenInterest(ret)
                                   THEN Append(valid_expiry_dates, expiry)
                                   ELSE valid_expiry_dates
          /\ seen' = Append(seen, ret)
  /\ pos' = pos + 1
  /\ UNCHANGED << provOptions, cacheIndices, cacheExpiry, pc, valid_indices, index_option,
                  expiry_dates, selected_expiry, filtered_df, current_price, error, chart,
                  download, refetched, prev, cacheCleared >>

\* SelectExpiry with the selectbox offering expiry_dates, not valid_expiry_dates
SelectAnyExpiry ==
  /\ pc = "validate"
  /\ pos > Len(expiry_dates)
  /\ valid_expiry_dates # << >>
  /\ \E k \in 1..Len(expiry_dates) :
       /\ prev = None => k = 1
       /\ selected_expiry' = Some(expiry_dates[k])
  /\ pc' = "fetch_selected"
  /\ UNCHANGED << today, renderDay, provider, caches, valid_indices, index_option, expiry_dates, pos,
                  valid_expiry_dates, calls_df, puts_df, filtered_df, current_price, page,
                  history >>

\* lines 83-84: the selectbox yields option 0 (index=0) in the first render and
\* any of its options, as the user picks, in the second
SelectExpiry ==
  /\ pc = "validate"
  /\ pos > Len(expiry_dates)
  /\ valid_expiry_dates # << >>
  /\ \E k \in 1..Len(valid_expiry_dates) :
       /\ prev = None => k = 1
       /\ selected_expiry' = Some(valid_expiry_dates[k])
  /\ pc' = "fetch_selected"
  /\ UNCHANGED << today, renderDay, provider, caches, valid_indices, index_option, expiry_dates, pos,
                  valid_expiry_dates, calls_df, puts_df, filtered_df, current_price, page,
                  history >>

\* NoExpiryStop with st.warning for the st.error of line 86
NoExpiryWarn ==
  /\ pc = "validate"
  /\ pos > Len(expiry_dates)
  /\ valid_expiry_dates = << >>
  /\ warnings' = Append(warnings, "No expiration dates available with open interest > 0")
  /\ pc' = "stopped"
  /\ UNCHANGED << today, renderDay, provider, caches, locals, error, chart, download, history >>

\* lines 85-87
NoExpiryStop ==
  /\ pc = "validate"
  /\ pos > Len(expiry_dates)
  /\ valid_expiry_dates = << >>
  /\ error' = Some("No expiration dates available with open interest > 0")
  /\ pc' = "stopped"
  /\ UNCHANGED << today, renderDay, provider, caches, locals, warnings, chart, download, history >>

\* ---------------------------------------------- chain filter and price
\* FilterMask with ">= 0" for the "> 0" of line 101
FilterMaskOrZero(expiry, row) == row.openInterest >= 0 /\ row.expirationDate = expiry

\* line 101: the mask of the filter
FilterMask(expiry, row) == row.openInterest > 0 /\ row.expirationDate = expiry

\* filter_chain concatenating the puts before the calls
filter_chain_puts_first(calls, puts, expiry) ==
  LET options_df == concat(puts, calls)
  IN BoolIndex(options_df, [i \in 1..Len(options_df.rows) |->
                              FilterMask(expiry, options_df.rows[i])])

\* lines 94-101, for a fetched pair that has its openInterest column
filter_chain(calls, puts, expiry) ==
  LET options_df == concat(calls, puts)
  IN BoolIndex(options_df, [i \in 1..Len(options_df.rows) |->
                              FilterMask(expiry, options_df.rows[i])])

\* lines 89-107
FetchAndFilter ==
  /\ pc = "fetch_selected"
  /\ \E o \in fetch_option_chain(index_option, Get(selected_expiry)) :
       LET ret == o.ret IN
       /\ Fetched(o)
       /\ refetched' = Some(ret)
       /\ IF ret.ok
          THEN LET calls == SetColumn(ret.calls, "type", "call")
                   puts == SetColumn(ret.puts, "type", "put")
               IN /\ calls_df' = Some(calls)
                  /\ puts_df' = Some(puts)
                  /\ IF HasColumn(concat(calls, puts), "openInterest")
                     THEN /\ filtered_df' = Some(filter_chain(calls, puts, Get(selected_expiry)))
                          /\ error' = error
                          /\ pc' = "price"
                     ELSE /\ error' = Some("Error: 'openInterest' column not found in data.")
                          /\ pc' = "stopped"
                          /\ UNCHANGED filtered_df
          ELSE /\ calls_df' = None
               /\ puts_df' = None
               /\ error' = Some("Error: Unable to fetch options chain data.")
               /\ pc' = "stopped"
               /\ UNCHANGED filtered_df
  /\ UNCHANGED << provOptions, cacheIndices, cacheExpiry, valid_indices, index_option,
                  expiry_dates, pos, valid_expiry_dates, selected_expiry, current_price,
                  chart, download, seen, prev, cacheCleared >>

\* latest_last_price taking idxmax of the lastPrice column
highest_last_price(df) == loc(df, idxmax(df, "lastPrice"), "lastPrice")

\* line 111
latest_last_price(df) == loc(df, idxmax(df, "lastTradeDate"), "lastPrice")

\* ReferencePrice without the st.stop() of line 114
ReferencePriceNoStop ==
  /\ pc = "price"
  /\ IF Get(filtered_df).rows # << >>
     THEN /\ current_price' = Some(latest_last_price(Get(filtered_df)))
          /\ UNCHANGED error
     ELSE /\ error' = Some("No data available after filtering. Please select another expiration date.")
          /\ UNCHANGED current_price
  /\ pc' = "plot"
  /\ UNCHANGED << today, renderDay, provider, caches, valid_indices, index_option, expiry_dates, pos,
                  valid_expiry_dates, selected_expiry, calls_df, puts_df, filtered_df,
                  warnings, chart, download, history >>

\* lines 109-114
ReferencePrice ==
  /\ pc = "price"
  /\ IF Get(filtered_df).rows # << >>
     THEN /\ current_price' = Some(latest_last_price(Get(filtered_df)))
          /\ pc' = "plot"
          /\ UNCHANGED error
     ELSE /\ error' = Some("No data available after filtering. Please select another expiration date.")
          /\ pc' = "stopped"
          /\ UNCHANGED current_price
  /\ UNCHANGED << today, renderDay, provider, caches, valid_indices, index_option, expiry_dates, pos,
                  valid_expiry_dates, selected_expiry, calls_df, puts_df, filtered_df,
                  warnings, chart, download, history >>

\* ------------------------------------------------------ chart and export
Column(df, c) == [i \in 1..Len(df.rows) |-> df.rows[i][c]]

\* max(...) of a non-empty sequence
Max(s) == CHOOSE m \in Elems(s) : \A x \in Elems(s) : x <= m

OfType(t, row) == row.type = t

\* lines 120-126 and 129-135: the bar trace of one option type
bar_trace(df, t) ==
  LET part == BoolIndex(df, [i \in 1..Len(df.rows) |-> OfType(t, df.rows[i])])
  IN [x |-> Column(part, "strike"), y |-> Column(part, "openInterest")]

\* lines 117-159
figure(df, price, expiry) ==
  [calls |-> bar_trace(df, "call"),
   puts |-> bar_trace(df, "put"),
   line |-> [x |-> << price, price >>, y |-> << 0, Max(Column(df, "openInterest")) >>],
   title |-> << "Open Interest for ", expiry >>]

\* lines 116-162
Plot ==
  /\ pc = "plot"
  /\ chart' = Some(figure(Get(filtered_df), Get(current_price), Get(selected_expiry)))
  /\ pc' = "export"
  /\ UNCHANGED << today, renderDay, provider, caches, locals, warnings, error, download, history >>

\* lines 164-173
Export ==
  /\ pc = "export"
  /\ download' = Some([data |-> to_csv(Get(filtered_df)),
                       file_name |-> << index_option, "_options_", Get(selected_expiry), ".csv" >>])
  /\ pc' = "done"
  /\ UNCHANGED << today, renderDay, provider, caches, locals, warnings, error, chart, history >>

\* ---------------------------------------------------------- the UI shell
\* what a render leaves behind
Outcome ==
  [valid_indices |-> valid_indices, index_option |-> index_option, selected_expiry |-> selected_expiry,
   valid_expiry_dates |-> valid_expiry_dates, filtered_df |-> filtered_df,
   current_price |-> current_price, chart |-> chart, download |-> download,
   error |-> error]

\* The script starts again at line 1: its variables and the page are reset.
\* What the render that ended left behind is kept for comparison.  The
\* interaction that starts it can come days later.  Only the first two renders
\* of a process are followed, and a rerun that interrupts a render is not.
StartAgain ==
  /\ pc \in {"done", "stopped"}
  /\ prev = None
  /\ prev' = Some(Outcome)
  /\ pc' = "discover"
  /\ valid_indices' = << >>
  /\ index_option' = NoIndex
  /\ expiry_dates' = << >>
  /\ pos' = 1
  /\ valid_expiry_dates' = << >>
  /\ selected_expiry' = None
  /\ calls_df' = None
  /\ puts_df' = None
  /\ filtered_df' = None
  /\ current_price' = None
  /\ warnings' = << >>
  /\ error' = None
  /\ chart' = None
  /\ download' = None
  /\ seen' = << >>
  /\ refetched' = None
  /\ today' \in today..LastDay
  /\ renderDay' = today'
  /\ UNCHANGED provider

\* an interaction reruns the script with the caches as they are
Rerun ==
  /\ StartAgain
  /\ cacheCleared' = FALSE
  /\ UNCHANGED caches

\* "Clear cache", then a rerun
RerunCleared ==
  /\ StartAgain
  /\ cacheCleared' = TRUE
  /\ cacheIndices' = None
  /\ cacheExpiry' = [s \in Symbols |-> None]
  /\ cacheChain' = [k \in ChainKeys |-> None]

\* "Clear cache" of the UI shell empties every st.cache_data cache, here while
\* a render is running
ClearCache ==
  /\ pc \notin {"done", "stopped"}
  /\ ~cacheCleared
  /\ cacheIndices' = None
  /\ cacheExpiry' = [s \in Symbols |-> None]
  /\ cacheChain' = [k \in ChainKeys |-> None]
  /\ cacheCleared' = TRUE
  /\ UNCHANGED << today, renderDay, provider, pc, locals, page, seen, refetched, prev >>

\* the market moves: what the provider answers from now on is open again
ProviderChange ==
  /\ pc \notin {"done", "stopped"}
  /\ provOptions' = [s \in Symbols |-> None]
  /\ provChain' = [k \in ChainKeys |-> None]
  /\ UNCHANGED << today, renderDay, caches, pc, locals, page, history >>

Next ==
  \/ get_all_us_indices_with_options
  \/ SelectIndex
  \/ fetch_expiry_dates
  \/ ValidateExpiry
  \/ SelectExpiry
  \/ NoExpiryStop
  \/ FetchAndFilter
  \/ ReferencePrice
  \/ Plot
  \/ Export
  \/ ClearCache
  \/ ProviderChange

\* The first render of a process, the provider and the caches changing under it.
Spec == Init /\ [][Next]_vars

\* The first two renders of a process against a provider whose data stays as
\* it is, the caches kept or cleared in between.
NextTwice ==
  \/ get_all_us_indices_with_options
  \/ SelectIndex
  \/ fetch_expiry_dates
  \/ ValidateExpiry
  \/ SelectExpiry
  \/ NoExpiryStop
  \/ FetchAndFilter
  \/ ReferencePrice
  \/ Plot
  \/ Export
  \/ Rerun
  \/ RerunCleared

SpecTwice == Init /\ [][NextTwice]_vars

\* ---------------------------------------------------------------- claims
\* the loop of line 75 has run to its end in this render
ValidationOver ==
  \/ pc = "validate" /\ pos > Len(expiry_dates)
  \/ pc \in {"fetch_selected", "price", "plot", "export", "done", "stopped"}

\* position of an expiry in expiry_dates
PosOf(expiry) == CHOOSE j \in 1..Len(expiry_dates) : expiry_dates[j] = expiry

\* s lists some of the elements of t, each once, in t's order
InOrderOf(s, t) ==
  /\ \A a \in 1..Len(s) : \E j \in 1..Len(t) : t[j] = s[a]
  /\ \A a, b \in 1..Len(s) :
       a < b => \E i, j \in 1..Len(t) : i < j /\ t[i] = s[a] /\ t[j] = s[b]

\* the open interest of a fetched pair: its column is there, and this is the
\* total over the call rows plus the total over the put rows
TotalOpenInterest(ret) ==
  SumSeq([i \in 1..Len(ret.calls.rows) |-> ret.calls.rows[i].openInterest])
  + SumSeq([i \in 1..Len(ret.puts.rows) |-> ret.puts.rows[i].openInterest])

Liquid(ret) ==
  /\ ret.ok
  /\ "openInterest" \in Elems(ret.calls.columns) \cup Elems(ret.puts.columns)
  /\ TotalOpenInterest(ret) > 0

\* C1: once the validator has gone through the expiry list, an expiry is in
\* its output exactly when its fetch succeeded and the open interest column of
\* calls+puts exists and sums to more than 0, and the output is in the order
\* of the expiry list.
C1_ValidatorOutput ==
  ValidationOver =>
    /\ Len(seen) = Len(expiry_dates)
    /\ \A j \in 1..Len(expiry_dates) :
         (expiry_dates[j] \in Elems(valid_expiry_dates)) <=> Liquid(seen[j])
    /\ InOrderOf(valid_expiry_dates, expiry_dates)

\* the first expiry has open interest 0 in all, the second has some
C1_Witness ==
  /\ ValidationOver
  /\ Len(expiry_dates) >= 2
  /\ seen[1].ok /\ ~Liquid(seen[1])
  /\ Liquid(seen[2])
  /\ valid_expiry_dates[1] = expiry_dates[2]

\* C2: a render whose validator output is empty stops with the terminal error
\* and selects no expiry, shows no chart and offers no export.
C2_EmptyOutputStops ==
  /\ (ValidationOver /\ valid_expiry_dates = << >>) =>
       /\ pc \in {"validate", "stopped"}
       /\ selected_expiry = None /\ chart = None /\ download = None
       /\ pc = "stopped" =>
            error = Some("No expiration dates available with open interest > 0")
  /\ (pc = "validate" /\ pos > Len(expiry_dates) /\ valid_expiry_dates = << >>) =>
       ~ENABLED SelectExpiry

\* every fetch of every expiry failed and the render has stopped
C2_Witness ==
  /\ pc = "stopped"
  /\ Len(expiry_dates) >= 2
  /\ \A j \in 1..Len(seen) : ~seen[j].ok
  /\ valid_expiry_dates = << >>
  /\ error # None

\* C3: every row of filtered_df, and so every row of the chart's bars and of
\* the export, has open interest above 0 and the selected expiry.
C3_FilterSound ==
  /\ filtered_df # None =>
       \A i \in 1..Len(Get(filtered_df).rows) :
         /\ Get(filtered_df).rows[i].openInterest > 0
         /\ Get(filtered_df).rows[i].expirationDate = Get(selected_expiry)
  /\ chart # None =>
       /\ \A i \in 1..Len(Get(chart).calls.y) : Get(chart).calls.y[i] > 0
       /\ \A i \in 1..Len(Get(chart).puts.y) : Get(chart).puts.y[i] > 0
  /\ download # None =>
       LET data == Get(download).data
           col(c) == CHOOSE k \in 1..Len(data[1]) : data[1][k] = c
       IN \A i \in 2..Len(data) :
            /\ data[i][col("openInterest")] > 0
            /\ data[i][col("expirationDate")] = Get(selected_expiry)

\* a fetched row without open interest was dropped, and the rest exported
C3_Witness ==
  /\ pc = "done"
  /\ \E i \in 1..Len(Get(calls_df).rows) : Get(calls_df).rows[i].openInterest = 0
  /\ Len(Get(filtered_df).rows) < Len(Get(calls_df).rows) + Len(Get(puts_df).rows)
  /\ Len(Get(download).data) = Len(Get(filtered_df).rows) + 1

\* C4: a reference price, a chart or an export only comes from a filtered_df
\* with rows; a render whose filter leaves no row stops with the terminal
\* error before any of them.
C4_NonEmptyBeforeRendering ==
  /\ (current_price # None \/ chart # None \/ download # None
      \/ pc \in {"plot", "export", "done"}) =>
       (filtered_df # None /\ Get(filtered_df).rows # << >>)
  /\ (filtered_df # None /\ Get(filtered_df).rows = << >>) =>
       /\ pc \in {"price", "stopped"}
       /\ current_price = None /\ chart = None /\ download = None
       /\ pc = "stopped" =>
            error = Some("No data available after filtering. Please select another expiration date.")

\* the filter left no row and the render has stopped
C4_Witness ==
  /\ pc = "stopped"
  /\ filtered_df # None
  /\ Get(filtered_df).rows = << >>

\* C5: the reference price is the lastPrice of a row of filtered_df whose
\* lastTradeDate is the greatest of filtered_df.
C5_PriceFromLatestRow ==
  current_price # None =>
    \E i \in 1..Len(Get(filtered_df).rows) :
      /\ Get(current_price) = Get(filtered_df).rows[i].lastPrice
      /\ \A j \in 1..Len(Get(filtered_df).rows) :
           Get(filtered_df).rows[j].lastTradeDate <= Get(filtered_df).rows[i].lastTradeDate

\* the rows differ in lastTradeDate, a row was dropped, the price is a put's
C5_Witness ==
  /\ current_price # None
  /\ \E i, j \in 1..Len(Get(filtered_df).rows) :
       Get(filtered_df).rows[i].lastTradeDate < Get(filtered_df).rows[j].lastTradeDate
  /\ Len(Get(filtered_df).rows) < Len(Get(calls_df).rows) + Len(Get(puts_df).rows)
  /\ \E i \in 1..Len(Get(filtered_df).rows) :
       /\ Get(filtered_df).rows[i].type = "put"
       /\ Get(filtered_df).rows[i].lastPrice = Get(current_price)

\* C6: a discovery that asks the provider ends with exactly the candidates
\* whose expiry query succeeded with a non-empty list, in the candidates'
\* order; a failing query stops neither the function nor the later queries.
C6_Discovery ==
  [][(pc = "discover" /\ cacheIndices = None) =>
       /\ pc' = "select_index"
       /\ \A s \in Symbols :
            (s \in Elems(valid_indices')) <=>
              (Get(provOptions'[s]).ok /\ Get(provOptions'[s]).options # << >>)
       /\ InOrderOf(valid_indices', common_us_indices)]_<< pc, valid_indices >>

\* the first candidate's query failed and the second candidate is the result
C6_Witness ==
  /\ pc = "select_index"
  /\ \A s \in Symbols : provOptions[s] # None
  /\ ~Get(provOptions[common_us_indices[1]]).ok
  /\ valid_indices = << common_us_indices[2] >>

\* C7: in the validation loop a provider call that fails gives (None, None)
\* and a warning; the iteration ends as any other, with the expiry left out,
\* no error, and the loop at the next expiry.
C7_FetchFailureSkipped ==
  [][(pc = "validate" /\ pos <= Len(expiry_dates)
      /\ cacheChain[<< index_option, expiry_dates[pos] >>] = None
      /\ provChain'[<< index_option, expiry_dates[pos] >>] = Some(Failure)) =>
       /\ seen' = Append(seen, Absent)
       /\ calls_df' = None /\ puts_df' = None
       /\ warnings' = Append(warnings, expiry_dates[pos])
       /\ valid_expiry_dates' = valid_expiry_dates
       /\ error' = None
       /\ pc' = "validate" /\ pos' = pos + 1
       /\ expiry_dates' = expiry_dates]_<< pos, seen >>

\* the first expiry's fetch failed, the second expiry was validated
C7_Witness ==
  /\ ValidationOver
  /\ Len(seen) >= 2
  /\ ~seen[1].ok
  /\ warnings # << >> /\ warnings[1] = expiry_dates[1]
  /\ expiry_dates[2] \in Elems(valid_expiry_dates)

\* the parts of a render's outcome that C8 compares
Compared(o) ==
  << o.valid_expiry_dates, o.filtered_df, o.current_price, o.chart, o.download >>

\* the second render has ended with the selection of the first
SameSelectionTwice ==
  /\ pc \in {"done", "stopped"}
  /\ prev # None
  /\ Get(prev).index_option = index_option
  /\ Get(prev).selected_expiry = selected_expiry

\* C8 as stated: two renders with the same selection against an unchanged
\* provider end with the same validator output, filtered_df, reference price,
\* chart and export.
C8_Idempotent ==
  SameSelectionTwice => Compared(Get(prev)) = Compared(Outcome)

\* C8 as amended: the same, when the caches were not cleared in between.
C8_IdempotentWhileCached ==
  (SameSelectionTwice /\ ~cacheCleared) =>
    Compared(Get(prev)) = Compared(Outcome)

\* a second render ended with a chart for the selection of the first
C8_Witness ==
  /\ SameSelectionTwice
  /\ ~cacheCleared
  /\ pc = "done"
  /\ Get(prev).download # None

\* the rows of a fetched table with open interest, in the table's order
Live(df) == SelectSeq(df.rows, LAMBDA row : row.openInterest > 0)

Tagged(rows, t) ==
  [i \in 1..Len(rows) |-> [f \in (DOMAIN rows[i]) \cup {"type"} |->
                              IF f = "type" THEN t ELSE rows[i][f]]]

\* strike and open interest of each row
Cells(rows) == [i \in 1..Len(rows) |-> << rows[i].strike, rows[i].openInterest >>]

\* C9: filtered_df is every fetched call row with open interest, as a call and
\* in the fetched order, then every such put row, as a put; the bars are those
\* calls and those puts.  The scenario chain gives calls 100:5 110:10 and puts
\* 100:8 110:3.
C9_FilterComplete ==
  /\ filtered_df # None =>
       Get(filtered_df).rows =
         Tagged(Live(Get(refetched).calls), "call") \o Tagged(Live(Get(refetched).puts), "put")
  /\ chart # None =>
       LET c == Live(Get(refetched).calls)
           p == Live(Get(refetched).puts)
       IN /\ Get(chart).calls.x = [i \in 1..Len(c) |-> c[i].strike]
          /\ Get(chart).calls.y = [i \in 1..Len(c) |-> c[i].openInterest]
          /\ Get(chart).puts.x = [i \in 1..Len(p) |-> p[i].strike]
          /\ Get(chart).puts.y = [i \in 1..Len(p) |-> p[i].openInterest]
  /\ (filtered_df # None
      /\ Cells(Get(refetched).calls.rows) = Cells(ScenarioChain.calls)
      /\ Cells(Get(refetched).puts.rows) = Cells(ScenarioChain.puts)) =>
       /\ [i \in 1..Len(Get(filtered_df).rows) |-> Get(filtered_df).rows[i].strike]
            = << 100, 110, 100, 110 >>
       /\ [i \in 1..Len(Get(filtered_df).rows) |-> Get(filtered_df).rows[i].openInterest]
            = << 5, 10, 8, 3 >>

\* the scenario chain on the chart
C9_Witness ==
  /\ chart # None
  /\ Get(chart).calls = [x |-> << 100, 110 >>, y |-> << 5, 10 >>]
  /\ Get(chart).puts = [x |-> << 100, 110 >>, y |-> << 8, 3 >>]

\* C10: the selected expiry is one of the validator's output, and a render
\* whose fetch of line 90 returns what line 76 got for the selected expiry
\* gets rows out of the filter and meets none of the errors of lines 103, 106
\* and 113.
C10_SameTablesNoError ==
  /\ selected_expiry # None => Get(selected_expiry) \in Elems(valid_expiry_dates)
  /\ (refetched # None /\ Get(refetched) = seen[PosOf(Get(selected_expiry))]) =>
       /\ pc \in {"price", "plot", "export", "done"}
       /\ error = None
       /\ filtered_df # None /\ Get(filtered_df).rows # << >>

\* the caches were cleared before line 90, the fetch returned the same
\* tables and the render has ended with chart and export
C10_Witness ==
  /\ pc = "done"
  /\ cacheCleared
  /\ Get(refetched) = seen[PosOf(Get(selected_expiry))]
  /\ chart # None /\ download # None

\* the errors of lines 103, 106 and 113 are met when line 90 gets other tables
C10_ErrorsReachable ==
  /\ pc = "stopped"
  /\ refetched # None
  /\ Get(refetched) # seen[PosOf(Get(selected_expiry))]

====
